---- MODULE Spec2Model ----
(***************************************************************************)
(* bevl: the input-state bridge of src/src/lib.rs.                         *)
(*                                                                         *)
(* run() installs the process-wide CONTEXT, the host loop (bevy App) then  *)
(* runs two systems per frame, update_keys (event ingestion) and the       *)
(* application's update, and run() tears CONTEXT down when the loop ends.  *)
(* Other threads call the getters at any time.  CONTEXT sits behind a      *)
(* readers/writer lock; every access goes through ctx / ctx_mut.           *)
(***************************************************************************)
EXTENDS Integers, Sequences, FiniteSets, TLC

(***************************************************************************)
(* Bounds of the model.                                                    *)
(***************************************************************************)
\* events the host delivers to one frame, all categories together
MaxEvents == 2
\* the same, in the specification with concurrent query threads
MaxEventsConc == 1
\* the most RenderIds a run of SpecId makes
MaxIds == 3

(***************************************************************************)
(* Values.                                                                 *)
(***************************************************************************)
\* Option<T>: None, Some(v)
None == <<>>
Some(v) == <<v>>

vec2(x, y) == <<x, y>>
Vec2_ZERO == vec2(0, 0)

ElementState == {"Pressed", "Released"}
KeyCode == {"A", "B"}
MouseButton == {"Left"}

\* KeyboardInput { scan_code, key_code: Option<KeyCode>, state }
ScanCodeOf(k) == IF k = Some("A") THEN 30 ELSE IF k = Some("B") THEN 48 ELSE 0
KeyboardInput ==
    {[scan_code |-> ScanCodeOf(k), key_code |-> k, state |-> s] :
        k \in {Some(c) : c \in KeyCode} \cup {None}, s \in ElementState}
\* MouseButtonInput { button, state }
MouseButtonInput == [button : MouseButton, state : ElementState]
\* MouseMotion { delta }
MouseMotion == {[delta |-> vec2(5, -2)]}
\* CursorMoved { position }
CursorMoved == {[position |-> vec2(400, 300)], [position |-> Vec2_ZERO]}
\* WindowResized { width, height }
WindowResized == {[width |-> 1024, height |-> 768], [width |-> 800, height |-> 600]}
WindowCloseRequested == {[id |-> "primary"]}

\* EventHandler::config(): the window descriptor the application configures
Config == [window |-> [width |-> 800, height |-> 600]]

\* the event categories, in the order update_keys drains them
Categories ==
    <<"keyboard", "mouse_buttons", "mouse_motion", "cursor_motion", "resize", "close">>

RECURSIVE SumSeq(_)
SumSeq(s) == IF s = <<>> THEN 0 ELSE Head(s) + SumSeq(Tail(s))

\* the event readers' contents at the start of a frame: one sequence per
\* category, in arrival order, at most n events in all, drawn from K, M, ..
BatchesOf(K, M, R, C, Z, X, n) ==
    UNION {
        {[keyboard |-> k, mouse_buttons |-> m, mouse_motion |-> r,
          cursor_motion |-> c, resize |-> z, close |-> x] :
            k \in [1..l[1] -> K], m \in [1..l[2] -> M], r \in [1..l[3] -> R],
            c \in [1..l[4] -> C], z \in [1..l[5] -> Z], x \in [1..l[6] -> X]} :
        l \in {t \in [1..6 -> 0..n] : SumSeq(t) <= n}}
Batches(n) ==
    BatchesOf(KeyboardInput, MouseButtonInput, MouseMotion, CursorMoved,
              WindowResized, WindowCloseRequested, n)
\* the batches of the specification with query threads: keyboard events for
\* key A only, so that key B and the buttons are never named by an event
BatchesConc(n) ==
    BatchesOf({e \in KeyboardInput : e.key_code = Some("A")}, {}, {}, {}, {}, {}, n)
FrameBatches == Batches(MaxEvents)
FrameBatchesConc == BatchesConc(MaxEventsConc)
NoEvents == CHOOSE b \in Batches(0) : TRUE

(***************************************************************************)
(* ButtonState and Context.                                                *)
(***************************************************************************)
\* #[derive(Default)] struct ButtonState
ButtonState_default == [down |-> FALSE, pressed |-> FALSE, released |-> FALSE]

\* HashMap::new()
HashMap_new == [k \in {} |-> ButtonState_default]
\* HashMap::get
get(map, k) == IF k \in DOMAIN map THEN Some(map[k]) ELSE None
\* HashMap::entry(k).or_default(): the map with an entry for k
entry_or_default(map, k) ==
    IF k \in DOMAIN map THEN map ELSE map @@ (k :> ButtonState_default)
\* Option::map_or(default, |s| s.field)
map_or(opt, default, field) == IF opt = None THEN default ELSE opt[1][field]

\* the Context run() installs
Context_new(config) ==
    [window_size |-> vec2(config.window.width, config.window.height),
     mouse_position |-> Vec2_ZERO,
     keys |-> HashMap_new,
     mouse_buttons |-> HashMap_new]

(***************************************************************************)
(* State.                                                                  *)
(***************************************************************************)
VARIABLES
    CONTEXT,      \* the static: None, or Some(Context)
    rw_writer,    \* the RwLock: TRUE while a write guard is held
    rw_readers,   \* the RwLock: the query threads holding a read guard
    pc,           \* where the thread of run() and of the frame's systems is
    order,        \* the order in which the schedule runs the two systems
    ran,          \* the systems that have finished in the current frame
    events,       \* the event readers' contents for the current frame
    cat,          \* update_keys: the category being drained (index in Categories)
    i,            \* update_keys: the next event of that category
    repeat,       \* update_keys: the local `repeat`
    calls,        \* the EventHandler callbacks invoked in the current frame
    frame_start,  \* CONTEXT as it was when the current frame began
    referenced,   \* the keys and buttons any ingested event has named
    q,            \* the query threads
    saw,          \* what the last hook's own getter calls answered
    made          \* the RenderIds made so far, each with its call site

vars == <<CONTEXT, rw_writer, rw_readers, pc, order, ran, events, cat, i,
          repeat, calls, frame_start, referenced, q, saw, made>>

Threads == {"t1", "t2"}
Systems == {"update_keys", "update"}

\* Option::expect on the guarded value: present or not
is_some(opt) == opt # None
unwrap(opt) == opt[1]

(***************************************************************************)
(* The closures update_keys passes to ctx_mut, as functions of the Context.*)
(***************************************************************************)
\* slip: the entry is looked up but its edge flags are not reset
keyboard_reset_no_clear(c, key) == [c EXCEPT !.keys = entry_or_default(c.keys, key)]
\* slip: the edge flags of every key are reset, not only those of `key`
keyboard_reset_all(c, key) ==
    LET keys == entry_or_default(c.keys, key)
    IN  [c EXCEPT !.keys = [k \in DOMAIN keys |->
                               [keys[k] EXCEPT !.pressed = FALSE, !.released = FALSE]]]
\* keyboard: entry(key).or_default(), then pressed = false, released = false
keyboard_reset(c, key) ==
    LET keys == entry_or_default(c.keys, key)
    IN  [c EXCEPT !.keys = [keys EXCEPT ![key].pressed = FALSE,
                                        ![key].released = FALSE]]
\* slip: the Released arm sets released and leaves down as it was
keyboard_match_released_keeps_down(c, key, state) ==
    IF state = "Pressed"
    THEN [c EXCEPT !.keys[key].down = TRUE, !.keys[key].pressed = TRUE]
    ELSE [c EXCEPT !.keys[key].released = TRUE]
\* keyboard: the match on input.state
keyboard_match(c, key, state) ==
    IF state = "Pressed"
    THEN [c EXCEPT !.keys[key].down = TRUE, !.keys[key].pressed = TRUE]
    ELSE [c EXCEPT !.keys[key].down = FALSE, !.keys[key].released = TRUE]
\* slip: `repeat` is read after down was set
keyboard_repeat_after_set(c, key, state, old) ==
    IF state = "Pressed" THEN keyboard_match(c, key, state).keys[key].down ELSE old
\* keyboard: the value the Pressed arm stores in `repeat`
keyboard_repeat(c, key, state, old) ==
    IF state = "Pressed" THEN c.keys[key].down ELSE old

\* mouse buttons: entry(button).or_default(), then the two resets
mouse_buttons_reset(c, button) ==
    LET bs == entry_or_default(c.mouse_buttons, button)
    IN  [c EXCEPT !.mouse_buttons = [bs EXCEPT ![button].pressed = FALSE,
                                               ![button].released = FALSE]]
\* slip: the Pressed arm sets pressed and leaves down as it was
mouse_buttons_match_no_down(c, button, state) ==
    IF state = "Pressed"
    THEN [c EXCEPT !.mouse_buttons[button].pressed = TRUE]
    ELSE [c EXCEPT !.mouse_buttons[button].down = FALSE,
                   !.mouse_buttons[button].released = TRUE]
\* mouse buttons: the match on input.state
mouse_buttons_match(c, button, state) ==
    IF state = "Pressed"
    THEN [c EXCEPT !.mouse_buttons[button].down = TRUE,
                   !.mouse_buttons[button].pressed = TRUE]
    ELSE [c EXCEPT !.mouse_buttons[button].down = FALSE,
                   !.mouse_buttons[button].released = TRUE]

\* slip: the coordinates are stored the wrong way round
cursor_assign_swapped(c, moved) ==
    [c EXCEPT !.mouse_position = vec2(moved.position[2], moved.position[1])]
\* cursor move: ctx.mouse_position = moved.position
cursor_assign(c, moved) == [c EXCEPT !.mouse_position = moved.position]
\* resize: size = vec2(width, height); ctx.window_size = size
\* slip: height and width the wrong way round
resize_size_swapped(resize) == vec2(resize.height, resize.width)
resize_size(resize) == vec2(resize.width, resize.height)
\* slip: the size is stored in the field of the branch above
resize_assign_mouse_position(c, size) == [c EXCEPT !.mouse_position = size]
resize_assign(c, size) == [c EXCEPT !.window_size = size]

(***************************************************************************)
(* The getters, as functions of the Context a read guard gives them.       *)
(***************************************************************************)
window_size(c) == c.window_size
mouse_position(c) == c.mouse_position
is_key_down(c, key) == map_or(get(c.keys, key), FALSE, "down")
is_key_pressed(c, key) == map_or(get(c.keys, key), FALSE, "pressed")
\* slip: released taken to be "not down"
is_key_released_not_down(c, key) == ~map_or(get(c.keys, key), FALSE, "down")
is_key_released(c, key) == map_or(get(c.keys, key), FALSE, "released")
is_mouse_button_down(c, mb) ==
    map_or(get(c.mouse_buttons, mb), FALSE, "down")
is_mouse_button_pressed(c, mb) ==
    map_or(get(c.mouse_buttons, mb), FALSE, "pressed")
is_mouse_button_released(c, mb) ==
    map_or(get(c.mouse_buttons, mb), FALSE, "released")

KeyGetters == {"is_key_down", "is_key_pressed", "is_key_released"}
ButtonGetters ==
    {"is_mouse_button_down", "is_mouse_button_pressed", "is_mouse_button_released"}
\* the calls a query thread can make
Queries ==
    {[fn |-> "window_size", arg |-> <<>>], [fn |-> "mouse_position", arg |-> <<>>]}
    \cup {[fn |-> f, arg |-> <<k>>] : f \in KeyGetters, k \in KeyCode}
    \cup {[fn |-> f, arg |-> <<b>>] : f \in ButtonGetters, b \in MouseButton}
\* what the call's closure computes from the Context
getters(call, c) ==
    CASE call.fn = "window_size" -> window_size(c)
      [] call.fn = "mouse_position" -> mouse_position(c)
      [] call.fn = "is_key_down" -> is_key_down(c, call.arg[1])
      [] call.fn = "is_key_pressed" -> is_key_pressed(c, call.arg[1])
      [] call.fn = "is_key_released" -> is_key_released(c, call.arg[1])
      [] call.fn = "is_mouse_button_down" -> is_mouse_button_down(c, call.arg[1])
      [] call.fn = "is_mouse_button_pressed" -> is_mouse_button_pressed(c, call.arg[1])
      [] call.fn = "is_mouse_button_released" -> is_mouse_button_released(c, call.arg[1])

(***************************************************************************)
(* The RwLock of CONTEXT.                                                  *)
(***************************************************************************)
\* RwLock::write() returns: no guard of either kind is held
can_write == ~rw_writer /\ rw_readers = {}
\* slip: a read guard is handed out whatever the lock's state
can_read_always == TRUE
\* RwLock::read() returns: no write guard is held
can_read == ~rw_writer
\* ctx called by a hook, on the frame thread, once for each getter of fns
\* about arg: each call takes a read guard, answers from the Context and
\* drops the guard
ctx(fns, arg) ==
    /\ can_read
    /\ saw' = Some([f \in fns |-> getters([fn |-> f, arg |-> arg], unwrap(CONTEXT))])

(***************************************************************************)
(* update_keys: the position in the event readers.                         *)
(***************************************************************************)
End == Len(Categories) + 1
Queue(c) == events[Categories[c]]
\* the first event at or after event j of category c, skipping the categories
\* that are empty or exhausted; End when there is none
RECURSIVE Skip(_, _)
Skip(c, j) ==
    IF c >= End THEN <<End, 1>>
    ELSE IF j <= Len(Queue(c)) THEN <<c, j>>
    ELSE Skip(c + 1, 1)
\* slip: the reader is iterated from its newest event
input_newest_first == Queue(cat)[Len(Queue(cat)) + 1 - i]
\* for input in reader.iter(): the event at hand
input == Queue(cat)[i]
Cat(name) == CHOOSE c \in 1..Len(Categories) : Categories[c] = name
At(p, name) == pc = p /\ cat = Cat(name)

\* the orders in which the schedule may run the two systems added with
\* add_system and no ordering constraint between them
Orders == {<<"update_keys", "update">>, <<"update", "update_keys">>}

Idle == [pc |-> "idle", call |-> None, ret |-> None]

Init ==
    /\ CONTEXT = None
    /\ rw_writer = FALSE
    /\ rw_readers = {}
    /\ pc = "start"
    /\ order = <<>>
    /\ ran = <<>>
    /\ events = NoEvents
    /\ cat = End
    /\ i = 1
    /\ repeat = FALSE
    /\ calls = <<>>
    /\ frame_start = None
    /\ referenced = {}
    /\ q = [t \in Threads |-> Idle]
    /\ saw = None
    /\ made = <<>>

(***************************************************************************)
(* run(): install, the host loop, teardown.                                *)
(***************************************************************************)
\* *CONTEXT.write() = Some(Context { .. }): the write guard is taken
run_write_lock ==
    /\ pc = "start"
    /\ can_write
    /\ rw_writer' = TRUE
    /\ pc' = "install"
    /\ UNCHANGED <<saw, made, CONTEXT, rw_readers, order, ran, events, cat, i, repeat,
                   calls, frame_start, referenced, q>>

\* ... the Context is stored and the guard dropped; the App is built with the
\* two systems and app.run() starts
run_install ==
    /\ pc = "install"
    /\ CONTEXT' = Some(Context_new(Config))
    /\ rw_writer' = FALSE
    /\ order' \in Orders
    /\ pc' = "app"
    /\ UNCHANGED <<saw, made, rw_readers, ran, events, cat, i, repeat, calls,
                   frame_start, referenced, q>>

\* the host loop starts a frame: the event readers hold a batch of B
app_update(B) ==
    /\ pc = "app"
    /\ events' \in B
    /\ frame_start' = CONTEXT
    /\ calls' = <<>>
    /\ ran' = <<>>
    /\ pc' = "schedule"
    /\ saw' = None
    /\ UNCHANGED <<made, CONTEXT, rw_writer, rw_readers, order, cat, i, repeat,
                   referenced, q>>

\* the schedule starts update_keys
update_keys_start ==
    /\ pc = "schedule"
    /\ Len(ran) < Len(order)
    /\ order[Len(ran) + 1] = "update_keys"
    /\ cat' = Skip(1, 1)[1]
    /\ i' = Skip(1, 1)[2]
    /\ pc' = "ev"
    /\ UNCHANGED <<saw, made, CONTEXT, rw_writer, rw_readers, order, ran, events, repeat,
                   calls, frame_start, referenced, q>>

\* the schedule runs the system that calls T::update
update ==
    /\ pc = "schedule"
    /\ Len(ran) < Len(order)
    /\ order[Len(ran) + 1] = "update"
    /\ calls' = Append(calls, [fn |-> "update", args |-> <<>>])
    /\ ran' = Append(ran, "update")
    /\ UNCHANGED <<saw, made, CONTEXT, rw_writer, rw_readers, pc, order, events, cat, i,
                   repeat, frame_start, referenced, q>>

\* both systems have run: the frame is over
app_update_end ==
    /\ pc = "schedule"
    /\ Len(ran) = Len(order)
    /\ pc' = "app"
    /\ events' = NoEvents
    /\ calls' = <<>>
    /\ ran' = <<>>
    /\ frame_start' = CONTEXT
    /\ saw' = None
    /\ UNCHANGED <<made, CONTEXT, rw_writer, rw_readers, order, cat, i, repeat,
                   referenced, q>>

\* app.run() returns; *CONTEXT.write() = None takes the write guard
run_teardown_lock ==
    /\ pc = "app"
    /\ can_write
    /\ rw_writer' = TRUE
    /\ pc' = "teardown"
    /\ UNCHANGED <<saw, made, CONTEXT, rw_readers, order, ran, events, cat, i, repeat,
                   calls, frame_start, referenced, q>>

\* ... None is stored and the guard dropped
run_teardown ==
    /\ pc = "teardown"
    /\ CONTEXT' = None
    /\ rw_writer' = FALSE
    /\ pc' = "stopped"
    /\ UNCHANGED <<saw, made, rw_readers, order, ran, events, cat, i, repeat, calls,
                   frame_start, referenced, q>>

(***************************************************************************)
(* update_keys.                                                            *)
(***************************************************************************)
\* the loops move on to the next event
Advance ==
    /\ cat' = Skip(cat, i + 1)[1]
    /\ i' = Skip(cat, i + 1)[2]

\* ctx_mut: the write guard is taken and the closure starts on the Context,
\* taking it to c; expect panics when CONTEXT is None
ctx_mut_enter(c) ==
    /\ can_write
    /\ IF is_some(CONTEXT)
       THEN /\ rw_writer' = TRUE
            /\ CONTEXT' = Some(c)
            /\ pc' = "write"
       ELSE /\ pc' = "panicked"
            /\ UNCHANGED <<CONTEXT, rw_writer>>

\* slip: the write guard outlives ctx_mut
ctx_mut_leave_keeps_guard(c) ==
    /\ CONTEXT' = Some(c)
    /\ rw_writer' = rw_writer
    /\ pc' = "cb"

\* ctx_mut: the closure finishes, taking the Context to c, and the write
\* guard is dropped
ctx_mut_leave(c) ==
    /\ CONTEXT' = Some(c)
    /\ rw_writer' = FALSE
    /\ pc' = "cb"

\* a keyboard event without a key code is skipped
keyboard_skip ==
    /\ At("ev", "keyboard")
    /\ input.key_code = None
    /\ Advance
    /\ UNCHANGED <<saw, made, CONTEXT, rw_writer, rw_readers, pc, order, ran, events,
                   repeat, calls, frame_start, referenced, q>>

\* let mut repeat = false; ctx_mut(|ctx| { entry, pressed = false, released = false
keyboard_ctx_mut ==
    /\ At("ev", "keyboard")
    /\ input.key_code # None
    /\ LET key == unwrap(input.key_code)
       IN  /\ ctx_mut_enter(keyboard_reset(unwrap(CONTEXT), key))
           /\ referenced' = referenced \cup {<<"key", key>>}
    /\ repeat' = FALSE
    /\ UNCHANGED <<saw, made, rw_readers, order, ran, events, cat, i, calls, frame_start, q>>

\* ... match input.state { .. } })
keyboard_ctx_mut_match ==
    /\ At("write", "keyboard")
    /\ LET key == unwrap(input.key_code)
       IN  /\ ctx_mut_leave(keyboard_match(unwrap(CONTEXT), key, input.state))
           /\ repeat' = keyboard_repeat(unwrap(CONTEXT), key, input.state, repeat)
    /\ UNCHANGED <<saw, made, rw_readers, order, ran, events, cat, i, calls, frame_start,
                   referenced, q>>

\* state.keyboard(key, input.scan_code, input.state, repeat)
keyboard ==
    /\ At("cb", "keyboard")
    /\ calls' = Append(calls, [fn |-> "keyboard",
                               args |-> <<unwrap(input.key_code), input.scan_code,
                                          input.state, repeat>>])
    /\ repeat' = FALSE
    /\ ctx(KeyGetters, <<unwrap(input.key_code)>>)
    /\ Advance
    /\ pc' = "ev"
    /\ UNCHANGED <<made, CONTEXT, rw_writer, rw_readers, order, ran, events,
                   frame_start, referenced, q>>

\* ctx_mut(|ctx| { entry, pressed = false, released = false
mouse_buttons_ctx_mut ==
    /\ At("ev", "mouse_buttons")
    /\ ctx_mut_enter(mouse_buttons_reset(unwrap(CONTEXT), input.button))
    /\ referenced' = referenced \cup {<<"button", input.button>>}
    /\ UNCHANGED <<saw, made, rw_readers, order, ran, events, cat, i, repeat, calls,
                   frame_start, q>>

\* ... match input.state { .. } })
mouse_buttons_ctx_mut_match ==
    /\ At("write", "mouse_buttons")
    /\ ctx_mut_leave(mouse_buttons_match(unwrap(CONTEXT), input.button, input.state))
    /\ UNCHANGED <<saw, made, rw_readers, order, ran, events, cat, i, repeat, calls,
                   frame_start, referenced, q>>

\* state.mouse_button(input.button, input.state)
mouse_button ==
    /\ At("cb", "mouse_buttons")
    /\ calls' = Append(calls, [fn |-> "mouse_button",
                               args |-> <<input.button, input.state>>])
    /\ ctx(ButtonGetters, <<input.button>>)
    /\ Advance
    /\ pc' = "ev"
    /\ UNCHANGED <<made, CONTEXT, rw_writer, rw_readers, order, ran, events, repeat,
                   frame_start, referenced, q>>

\* state.mouse_relative(motion.delta)
mouse_relative ==
    /\ At("ev", "mouse_motion")
    /\ calls' = Append(calls, [fn |-> "mouse_relative", args |-> <<input.delta>>])
    /\ Advance
    /\ UNCHANGED <<saw, made, CONTEXT, rw_writer, rw_readers, pc, order, ran, events,
                   repeat, frame_start, referenced, q>>

\* ctx_mut(|ctx| ..: the write guard is taken
cursor_motion_ctx_mut ==
    /\ At("ev", "cursor_motion")
    /\ ctx_mut_enter(unwrap(CONTEXT))
    /\ UNCHANGED <<saw, made, rw_readers, order, ran, events, cat, i, repeat, calls,
                   frame_start, referenced, q>>

\* ... ctx.mouse_position = moved.position)
cursor_motion_ctx_mut_assign ==
    /\ At("write", "cursor_motion")
    /\ ctx_mut_leave(cursor_assign(unwrap(CONTEXT), input))
    /\ UNCHANGED <<saw, made, rw_readers, order, ran, events, cat, i, repeat, calls,
                   frame_start, referenced, q>>

\* state.mouse_absolute(moved.position)
mouse_absolute ==
    /\ At("cb", "cursor_motion")
    /\ calls' = Append(calls, [fn |-> "mouse_absolute", args |-> <<input.position>>])
    /\ ctx({"mouse_position"}, <<>>)
    /\ Advance
    /\ pc' = "ev"
    /\ UNCHANGED <<made, CONTEXT, rw_writer, rw_readers, order, ran, events, repeat,
                   frame_start, referenced, q>>

\* let size = vec2(..); ctx_mut(|ctx| ..: the write guard is taken
resize_ctx_mut ==
    /\ At("ev", "resize")
    /\ ctx_mut_enter(unwrap(CONTEXT))
    /\ UNCHANGED <<saw, made, rw_readers, order, ran, events, cat, i, repeat, calls,
                   frame_start, referenced, q>>

\* ... ctx.window_size = size)
resize_ctx_mut_assign ==
    /\ At("write", "resize")
    /\ ctx_mut_leave(resize_assign(unwrap(CONTEXT), resize_size(input)))
    /\ UNCHANGED <<saw, made, rw_readers, order, ran, events, cat, i, repeat, calls,
                   frame_start, referenced, q>>

\* state.window_resized(size)
window_resized ==
    /\ At("cb", "resize")
    /\ calls' = Append(calls, [fn |-> "window_resized",
                               args |-> <<resize_size(input)>>])
    /\ ctx({"window_size"}, <<>>)
    /\ Advance
    /\ pc' = "ev"
    /\ UNCHANGED <<made, CONTEXT, rw_writer, rw_readers, order, ran, events, repeat,
                   frame_start, referenced, q>>

\* slip: a close the callback confirms tears the Context down
close_requested_shutdown(b) ==
    /\ At("ev", "close")
    /\ calls' = Append(calls, [fn |-> "close_requested", args |-> <<>>, ret |-> b])
    /\ CONTEXT' = IF b THEN None ELSE CONTEXT
    /\ cat' = End
    /\ i' = 1
    /\ UNCHANGED <<saw, made, rw_writer, rw_readers, pc, order, ran, events,
                   repeat, frame_start, referenced, q>>

\* if !close.is_empty() && state.close_requested() {}: the callback answers b
close_requested(b) ==
    /\ At("ev", "close")
    /\ calls' = Append(calls, [fn |-> "close_requested", args |-> <<>>, ret |-> b])
    /\ cat' = End
    /\ i' = 1
    /\ UNCHANGED <<saw, made, CONTEXT, rw_writer, rw_readers, pc, order, ran, events,
                   repeat, frame_start, referenced, q>>

\* update_keys returns
update_keys_end ==
    /\ pc = "ev"
    /\ cat = End
    /\ ran' = Append(ran, "update_keys")
    /\ pc' = "schedule"
    /\ UNCHANGED <<saw, made, CONTEXT, rw_writer, rw_readers, order, events, cat, i,
                   repeat, calls, frame_start, referenced, q>>

(***************************************************************************)
(* The query threads: a getter is ctx(closure).                            *)
(***************************************************************************)
\* ctx: CONTEXT.read() returns a read guard to thread t, which calls `call`
ctx_read_lock(t, call) ==
    /\ q[t].pc # "locked"
    /\ can_read
    /\ rw_readers' = rw_readers \cup {t}
    /\ q' = [q EXCEPT ![t] = [pc |-> "locked", call |-> Some(call), ret |-> None]]
    /\ UNCHANGED <<saw, made, CONTEXT, rw_writer, pc, order, ran, events, cat, i, repeat,
                   calls, frame_start, referenced>>

\* ctx: expect finds the Context, the closure reads it, the guard is dropped
ctx_return(t) ==
    /\ q[t].pc = "locked"
    /\ is_some(CONTEXT)
    /\ q' = [q EXCEPT ![t] = [pc |-> "returned", call |-> q[t].call,
                              ret |-> Some(getters(unwrap(q[t].call), unwrap(CONTEXT)))]]
    /\ rw_readers' = rw_readers \ {t}
    /\ UNCHANGED <<saw, made, CONTEXT, rw_writer, pc, order, ran, events, cat, i, repeat,
                   calls, frame_start, referenced>>

\* slip: a missing Context answers with a default instead of panicking
ctx_unwrap_or_default(t) ==
    /\ q[t].pc = "locked"
    /\ ~is_some(CONTEXT)
    /\ q' = [q EXCEPT ![t] = [pc |-> "returned", call |-> q[t].call, ret |-> Some(FALSE)]]
    /\ rw_readers' = rw_readers \ {t}
    /\ UNCHANGED <<saw, made, CONTEXT, rw_writer, pc, order, ran, events, cat, i, repeat,
                   calls, frame_start, referenced>>

\* ctx: expect finds None and panics; unwinding drops the guard
ctx_panic(t) ==
    /\ q[t].pc = "locked"
    /\ ~is_some(CONTEXT)
    /\ q' = [q EXCEPT ![t] = [pc |-> "panicked", call |-> None, ret |-> None]]
    /\ rw_readers' = rw_readers \ {t}
    /\ UNCHANGED <<saw, made, CONTEXT, rw_writer, pc, order, ran, events, cat, i, repeat,
                   calls, frame_start, referenced>>

(***************************************************************************)
(* Specifications.                                                         *)
(***************************************************************************)
\* run() and the schedule of the frame's two systems
Lifecycle ==
    \/ run_write_lock
    \/ run_install
    \/ update_keys_start
    \/ update
    \/ update_keys_end
    \/ app_update_end
    \/ run_teardown_lock
    \/ run_teardown

\* update_keys on keyboard events that carry a key code
Keyboard ==
    \/ keyboard_ctx_mut
    \/ keyboard_ctx_mut_match
    \/ keyboard

\* update_keys on the other events
Others ==
    \/ keyboard_skip
    \/ mouse_buttons_ctx_mut
    \/ mouse_buttons_ctx_mut_match
    \/ mouse_button
    \/ mouse_relative
    \/ cursor_motion_ctx_mut
    \/ cursor_motion_ctx_mut_assign
    \/ mouse_absolute
    \/ resize_ctx_mut
    \/ resize_ctx_mut_assign
    \/ window_resized
    \/ \E b \in BOOLEAN : close_requested(b)

\* the frame thread alone, on every kind of event
Next ==
    \/ Lifecycle
    \/ app_update(FrameBatches)
    \/ Keyboard
    \/ Others

Spec == Init /\ [][Next]_vars

\* update_keys, once the schedule has started it
UpdateKeys ==
    \/ Keyboard
    \/ Others
    \/ update_keys_end
\* the same, with a frame thread that keeps running: update_keys is a plain
\* function on the frame thread and takes its next step whenever it can
SpecFair == Spec /\ WF_vars(UpdateKeys)

\* the frame thread on keyboard events, and the query threads
NextConc ==
    \/ Lifecycle
    \/ app_update(FrameBatchesConc)
    \/ Keyboard
    \/ \E t \in Threads, call \in Queries : ctx_read_lock(t, call)
    \/ \E t \in Threads : ctx_return(t)
    \/ \E t \in Threads : ctx_panic(t)

SpecConc == Init /\ [][NextConc]_vars

(***************************************************************************)
(* render.rs: RenderId and the id! macro.                                  *)
(***************************************************************************)
\* the places of the program text where id!() is written: a file, and the
\* line and column of the invocation in it
CallSites == [file : {"lib.rs", "render.rs"}, line : {1, 2}, column : {1, 2}]
\* line!() and column!() expanded at an invocation written at site
line(site) == site.line
column(site) == site.column
\* RenderId::new(a, b)
RenderId_new(a, b) == [line |-> a, col |-> b]
\* id!() written at site
id(site) == RenderId_new(line(site), column(site))
\* derive(PartialEq, Eq) of RenderId
RenderId_eq(x, y) == x.line = y.line /\ x.col = y.col

\* the program runs through an id!() written at site
id_call(site) ==
    /\ Len(made) < MaxIds
    /\ made' = Append(made, [site |-> site, id |-> id(site)])
    /\ UNCHANGED <<CONTEXT, rw_writer, rw_readers, pc, order, ran, events, cat, i,
                   repeat, calls, frame_start, referenced, q, saw>>

\* the calls of id!(), from any call site and in any order
NextId == \E site \in CallSites : id_call(site)

SpecId == Init /\ [][NextId]_vars

(***************************************************************************)
(* What the claims speak of.                                               *)
(***************************************************************************)
\* the Context while it is present
Ctx == unwrap(CONTEXT)
\* system s has finished in the current frame
Ran(s) == \E n \in 1..Len(ran) : ran[n] = s
\* update_keys has drained every event reader of the current frame
Ingested == pc = "schedule" /\ Ran("update_keys")
\* the key of a keyboard event that carries one
KeyOf(e) == unwrap(e.key_code)

\* one keyboard event applied as a whole to the key map of c
KeyEvent(c, e) ==
    IF e.key_code = None THEN c
    ELSE keyboard_match(keyboard_reset(c, KeyOf(e)), KeyOf(e), e.state)
\* one mouse-button event applied as a whole
ButtonEvent(c, e) ==
    mouse_buttons_match(mouse_buttons_reset(c, e.button), e.button, e.state)
CursorEvent(c, e) == cursor_assign(c, e)
ResizeEvent(c, e) == resize_assign(c, resize_size(e))

\* the events of a category folded one by one, in arrival order
RECURSIVE FoldKeys(_, _)
FoldKeys(c, es) == IF es = <<>> THEN c ELSE FoldKeys(KeyEvent(c, Head(es)), Tail(es))
RECURSIVE FoldButtons(_, _)
FoldButtons(c, es) ==
    IF es = <<>> THEN c ELSE FoldButtons(ButtonEvent(c, Head(es)), Tail(es))
RECURSIVE FoldCursor(_, _)
FoldCursor(c, es) ==
    IF es = <<>> THEN c ELSE FoldCursor(CursorEvent(c, Head(es)), Tail(es))
RECURSIVE FoldResize(_, _)
FoldResize(c, es) ==
    IF es = <<>> THEN c ELSE FoldResize(ResizeEvent(c, Head(es)), Tail(es))

\* the Context just before keyboard event n of the current frame
BeforeKey(n) == FoldKeys(unwrap(frame_start), SubSeq(events.keyboard, 1, n - 1))

\* the callbacks named fn invoked so far in the current frame
Calls(fn) == SelectSeq(calls, LAMBDA r : r.fn = fn)
\* the keyboard events of the frame that carry a key code, by position
Keyed == SelectSeq([n \in 1..Len(events.keyboard) |-> n],
                   LAMBDA n : events.keyboard[n].key_code # None)

(***************************************************************************)
(* C1.  A Pressed keyboard event for key k leaves is_key_down(k) and       *)
(* is_key_pressed(k) true and is_key_released(k) false, and the keyboard   *)
(* callback gets repeat = the value down had for k just before the event   *)
(* (false when k was up or had no entry, true when k was already down).    *)
(***************************************************************************)
C1_PressedEvent ==
    /\ (At("cb", "keyboard") /\ input.state = "Pressed") =>
          /\ is_key_down(Ctx, KeyOf(input))
          /\ is_key_pressed(Ctx, KeyOf(input))
          /\ ~is_key_released(Ctx, KeyOf(input))
          /\ repeat = is_key_down(BeforeKey(i), KeyOf(input))
    /\ \A j \in 1..Len(Calls("keyboard")) :
          LET e == events.keyboard[Keyed[j]]
          IN  e.state = "Pressed" =>
                 Calls("keyboard")[j].args[4] = is_key_down(BeforeKey(Keyed[j]), KeyOf(e))

\* a Pressed event for a key that was already down has been reported, repeat = true
C1_Witness ==
    /\ pc = "ev"
    /\ \E j \in 1..Len(Calls("keyboard")) :
          /\ Calls("keyboard")[j].args[3] = "Pressed"
          /\ Calls("keyboard")[j].args[4] = TRUE
          /\ is_key_pressed(Ctx, Calls("keyboard")[j].args[1])

(***************************************************************************)
(* C2.  One ingestion cycle after a Pressed event for k, with no new event *)
(* for k, is_key_pressed(k) is false while is_key_down(k) is still true:   *)
(* pressed and released are true only in the cycle of their transition.    *)
(* Stated at the end of a cycle that carried no event for k.               *)
(***************************************************************************)
C2_EdgeFlagsCycleLocal ==
    Ingested =>
        \A k \in KeyCode :
            (\A n \in 1..Len(events.keyboard) : events.keyboard[n].key_code # Some(k)) =>
                /\ ~is_key_pressed(Ctx, k)
                /\ ~is_key_released(Ctx, k)
                /\ is_key_down(Ctx, k) = is_key_down(unwrap(frame_start), k)

(***************************************************************************)
(* C3.  Whatever the state of key k was, a Released keyboard event for k   *)
(* leaves is_key_down(k) false, is_key_released(k) true and                *)
(* is_key_pressed(k) false.                                                *)
(***************************************************************************)
C3_ReleasedEvent ==
    (At("cb", "keyboard") /\ input.state = "Released") =>
        /\ ~is_key_down(Ctx, KeyOf(input))
        /\ is_key_released(Ctx, KeyOf(input))
        /\ ~is_key_pressed(Ctx, KeyOf(input))

\* a Released event has been applied to a key whose pressed flag was set
C3_Witness ==
    /\ At("cb", "keyboard")
    /\ input.state = "Released"
    /\ is_key_pressed(BeforeKey(i), KeyOf(input))
    /\ is_key_released(Ctx, KeyOf(input))

\* the whole batch folded into c, each category in arrival order
Ingest(c, b) ==
    FoldResize(FoldCursor(FoldButtons(FoldKeys(c, b.keyboard), b.mouse_buttons),
                          b.cursor_motion), b.resize)

\* the current frame is between its start and its end
InFrame == pc \in {"schedule", "ev", "write", "cb"}
\* how many events of category `name` update_keys has gone past in this frame,
\* counting the event at hand when the thread is at one of `at`
Past(name, at) ==
    IF pc = "schedule" THEN (IF Ran("update_keys") THEN Len(events[name]) ELSE 0)
    ELSE IF cat < Cat(name) THEN 0
    ELSE IF cat > Cat(name) THEN Len(events[name])
    ELSE IF pc \in at THEN i ELSE i - 1
\* ... whose closure has run
Written(name) == Past(name, {"cb"})
\* ... whose callback has been invoked
Reported(name) == Past(name, {})

(***************************************************************************)
(* C7.  As claimed: at the end of an ingestion cycle the Context is the    *)
(* fold of each category's events in arrival order, and the keyboard,      *)
(* mouse_button, mouse_absolute and window_resized callbacks were invoked  *)
(* exactly once per event of their category, in that order.                *)
(***************************************************************************)
C7_OncePerEvent ==
    Ingested =>
        /\ Ctx = Ingest(unwrap(frame_start), events)
        /\ Len(Calls("keyboard")) = Len(events.keyboard)
        /\ \A n \in 1..Len(Calls("keyboard")) :
              /\ Calls("keyboard")[n].args[2] = events.keyboard[n].scan_code
              /\ Calls("keyboard")[n].args[3] = events.keyboard[n].state
        /\ Calls("mouse_button") =
              [n \in 1..Len(events.mouse_buttons) |->
                  [fn |-> "mouse_button",
                   args |-> <<events.mouse_buttons[n].button, events.mouse_buttons[n].state>>]]
        /\ Calls("mouse_absolute") =
              [n \in 1..Len(events.cursor_motion) |->
                  [fn |-> "mouse_absolute", args |-> <<events.cursor_motion[n].position>>]]
        /\ Calls("window_resized") =
              [n \in 1..Len(events.resize) |->
                  [fn |-> "window_resized",
                   args |-> <<vec2(events.resize[n].width, events.resize[n].height)>>]]

(***************************************************************************)
(* C7, amended.  The same, except that a keyboard event without a key code *)
(* is skipped: it changes nothing and the keyboard callback is invoked     *)
(* once per keyboard event that carries a key code, in arrival order.      *)
(***************************************************************************)
C7_ArrivalOrder ==
    Ingested =>
        /\ Ctx = Ingest(unwrap(frame_start), events)
        /\ Len(Calls("keyboard")) = Len(Keyed)
        /\ \A j \in 1..Len(Calls("keyboard")) :
              LET e == events.keyboard[Keyed[j]]
              IN  /\ Calls("keyboard")[j].args[1] = KeyOf(e)
                  /\ Calls("keyboard")[j].args[2] = e.scan_code
                  /\ Calls("keyboard")[j].args[3] = e.state
        /\ Calls("mouse_button") =
              [n \in 1..Len(events.mouse_buttons) |->
                  [fn |-> "mouse_button",
                   args |-> <<events.mouse_buttons[n].button, events.mouse_buttons[n].state>>]]
        /\ Calls("mouse_absolute") =
              [n \in 1..Len(events.cursor_motion) |->
                  [fn |-> "mouse_absolute", args |-> <<events.cursor_motion[n].position>>]]
        /\ Calls("window_resized") =
              [n \in 1..Len(events.resize) |->
                  [fn |-> "window_resized",
                   args |-> <<vec2(events.resize[n].width, events.resize[n].height)>>]]

\* a cycle has ended whose keyboard reader held an event without a key code
\* followed by a Released event for a key that was down
C7_Witness ==
    /\ Ingested
    /\ Len(events.keyboard) = 2
    /\ events.keyboard[1].key_code = None
    /\ events.keyboard[2].key_code # None
    /\ events.keyboard[2].state = "Released"
    /\ is_key_down(unwrap(frame_start), KeyOf(events.keyboard[2]))
    /\ Len(Calls("keyboard")) = 1

(***************************************************************************)
(* C8.  In every frame, update_keys has run to completion before the       *)
(* application's update callback of that frame runs.                       *)
(***************************************************************************)
C8_IngestionBeforeUpdate ==
    Ran("update") => ran[1] = "update_keys"

(***************************************************************************)
(* C9.  window_size() is the configured (W, H) from the start until a      *)
(* resize event is ingested; once a resize event {w, h} is ingested it is  *)
(* (w, h), the window_resized callback having been invoked once for each   *)
(* resize event with its (w, h); no other event changes window_size.       *)
(* frame_start is None from the install to the first frame.                *)
(***************************************************************************)
C9_WindowSize ==
    /\ (pc = "app" /\ frame_start = None) =>
          window_size(Ctx) = vec2(Config.window.width, Config.window.height)
    /\ (pc = "app" /\ frame_start # None) =>
          window_size(Ctx) = window_size(unwrap(frame_start))
    /\ InFrame =>
          /\ window_size(Ctx) =
                IF Written("resize") = 0 THEN window_size(unwrap(frame_start))
                ELSE <<events.resize[Written("resize")].width,
                       events.resize[Written("resize")].height>>
          /\ Calls("window_resized") =
                [n \in 1..Reported("resize") |->
                    [fn |-> "window_resized",
                     args |-> <<<<events.resize[n].width, events.resize[n].height>>>>]]

\* a resize to 1024x768 has been ingested and reported in a window of 800x600
C9_Witness ==
    /\ InFrame
    /\ window_size(unwrap(frame_start)) = <<800, 600>>
    /\ window_size(Ctx) = <<1024, 768>>
    /\ Calls("window_resized") = <<[fn |-> "window_resized", args |-> <<<<1024, 768>>>>]>>

(***************************************************************************)
(* C10.  Once a cursor-position event with position p is ingested,         *)
(* mouse_position() is p, the mouse_absolute callback having been invoked  *)
(* once for each cursor event with its p; a mouse-motion event invokes     *)
(* mouse_relative with its delta and leaves mouse_position() as it was.    *)
(***************************************************************************)
C10_MousePosition ==
    /\ (pc = "app" /\ frame_start # None) =>
          mouse_position(Ctx) = mouse_position(unwrap(frame_start))
    /\ InFrame =>
          /\ mouse_position(Ctx) =
                IF Written("cursor_motion") = 0 THEN mouse_position(unwrap(frame_start))
                ELSE events.cursor_motion[Written("cursor_motion")].position
          /\ Calls("mouse_absolute") =
                [n \in 1..Reported("cursor_motion") |->
                    [fn |-> "mouse_absolute", args |-> <<events.cursor_motion[n].position>>]]
          /\ Calls("mouse_relative") =
                [n \in 1..Reported("mouse_motion") |->
                    [fn |-> "mouse_relative", args |-> <<events.mouse_motion[n].delta>>]]

\* the cursor was put at (400, 300) in an earlier frame, and in this one a
\* mouse-motion event has been reported and a cursor event ingested
C10_Witness ==
    /\ Ingested
    /\ mouse_position(unwrap(frame_start)) = <<400, 300>>
    /\ Calls("mouse_relative") = <<[fn |-> "mouse_relative", args |-> <<<<5, -2>>>>]>>
    /\ Calls("mouse_absolute") = <<[fn |-> "mouse_absolute", args |-> <<<<0, 0>>>>]>>
    /\ mouse_position(Ctx) = <<0, 0>>

(***************************************************************************)
(* The query threads.                                                      *)
(***************************************************************************)
\* thread t leaves ctx in this step
Leaves(t) == q[t].pc = "locked" /\ q'[t].pc # "locked"
\* the key or button a call asks about, as `referenced` names it
Asked(call) ==
    IF call.fn \in KeyGetters THEN {<<"key", call.arg[1]>>}
    ELSE IF call.fn \in ButtonGetters THEN {<<"button", call.arg[1]>>}
    ELSE {}

(***************************************************************************)
(* C4.  While the Context is present, a key or button that no event has    *)
(* named has no entry and its down, pressed and released getters answer    *)
(* false, whatever events the other keys got; and no step of a query       *)
(* changes CONTEXT.                                                        *)
(***************************************************************************)
C4_Entries ==
    is_some(CONTEXT) =>
        /\ DOMAIN Ctx.keys = {k \in KeyCode : <<"key", k>> \in referenced}
        /\ DOMAIN Ctx.mouse_buttons = {b \in MouseButton : <<"button", b>> \in referenced}
        /\ \A k \in KeyCode : <<"key", k>> \notin referenced =>
              /\ ~is_key_down(Ctx, k)
              /\ ~is_key_pressed(Ctx, k)
              /\ ~is_key_released(Ctx, k)
        /\ \A b \in MouseButton : <<"button", b>> \notin referenced =>
              /\ ~is_mouse_button_down(Ctx, b)
              /\ ~is_mouse_button_pressed(Ctx, b)
              /\ ~is_mouse_button_released(Ctx, b)
C4_QueryStep ==
    \A t \in Threads :
        q'[t] # q[t] =>
            /\ CONTEXT' = CONTEXT
            /\ (q'[t].pc = "returned" /\ Asked(unwrap(q'[t].call)) # {}
                /\ Asked(unwrap(q'[t].call)) \cap referenced = {}) =>
                  q'[t].ret = Some(FALSE)
C4_NeverReferenced == []C4_Entries /\ [][C4_QueryStep]_vars

\* a query about key B has answered false after key A was pressed
C4_Witness ==
    /\ is_some(CONTEXT)
    /\ is_key_down(Ctx, "A")
    /\ <<"key", "B">> \notin referenced
    /\ \E t \in Threads :
          /\ q[t].pc = "returned"
          /\ unwrap(q[t].call).fn = "is_key_released"
          /\ unwrap(q[t].call).arg = <<"B">>
          /\ q[t].ret = Some(FALSE)

(***************************************************************************)
(* C5.  CONTEXT is absent exactly before run() has installed it and after  *)
(* run() has torn it down.  A getter that reaches ctx's expect while it is *)
(* absent panics and returns nothing; one that reaches it while it is      *)
(* present returns a value; update_keys' ctx_mut never panics.             *)
(***************************************************************************)
C5_Installed ==
    /\ is_some(CONTEXT) <=> pc \notin {"start", "install", "stopped"}
    /\ pc # "panicked"
C5_QueryStep ==
    \A t \in Threads :
        Leaves(t) =>
            IF is_some(CONTEXT)
            THEN q'[t].pc = "returned" /\ q'[t].ret # None
            ELSE q'[t].pc = "panicked" /\ q'[t].ret = None
C5_FatalOutside == []C5_Installed /\ [][C5_QueryStep]_vars

\* after the teardown: one query has panicked, another had returned a value
C5_Witness ==
    /\ pc = "stopped"
    /\ q["t1"].pc = "panicked"
    /\ q["t2"].pc = "returned"

(***************************************************************************)
(* C6.  No write guard is held while a read guard is; several read guards  *)
(* may be held at once; the write guard is held exactly inside run()'s two *)
(* stores and update_keys' closures.  So a getter holding its read guard   *)
(* never sees an entry between the reset of pressed/released and the match *)
(* that sets one of them.                                                  *)
(***************************************************************************)
C6_ReadersWriter ==
    /\ ~(rw_writer /\ rw_readers # {})
    /\ rw_writer <=> pc \in {"install", "write", "teardown"}
    /\ rw_readers = {t \in Threads : q[t].pc = "locked"}
    /\ (rw_readers # {} /\ is_some(CONTEXT)) =>
          \A k \in DOMAIN Ctx.keys : Ctx.keys[k].pressed \/ Ctx.keys[k].released

\* both query threads hold a read guard while update_keys is about to write
C6_Witness ==
    /\ rw_readers = Threads
    /\ At("ev", "keyboard")

(***************************************************************************)
(* C12: the RenderId of a call site.                                       *)
(***************************************************************************)
\* C12: id!() is a function of the call site: two calls from the same call
\* site yield equal RenderIds, two calls from distinct call sites yield
\* unequal RenderIds, and two RenderIds are equal if and only if their line
\* and their col both match.
C12_CallSiteIdentity ==
    \A m, n \in 1..Len(made) :
        /\ made[m].site = made[n].site => RenderId_eq(made[m].id, made[n].id)
        /\ made[m].site # made[n].site => ~RenderId_eq(made[m].id, made[n].id)
        /\ RenderId_eq(made[m].id, made[n].id)
               <=> (made[m].id.line = made[n].id.line /\ made[m].id.col = made[n].id.col)

(***************************************************************************)
(* C13: the fatal check and the lock.                                      *)
(***************************************************************************)
\* C13: a getter or accessor called while the Context is absent fails
\* before it touches the lock: no thread fails on the absent Context while
\* it holds a guard of the RwLock.
C13_CheckBeforeLock ==
    [][\A t \in Threads :
          (q[t].pc # "panicked" /\ q'[t].pc = "panicked") => t \notin rw_readers]_vars

(***************************************************************************)
(* C14.  The close_requested callback is invoked in a cycle exactly when   *)
(* the cycle carries a close request; the step that invokes it, whatever   *)
(* the callback answers, leaves the Context as it was and present, holds   *)
(* no guard and lets update_keys go on to its end.                         *)
(***************************************************************************)
\* the step invokes the close_requested callback
Closes ==
    /\ Len(calls') = Len(calls) + 1
    /\ calls'[Len(calls')].fn = "close_requested"
C14_Invoked ==
    Ingested => (Calls("close_requested") # <<>> <=> events.close # <<>>)
C14_CloseStep ==
    Closes => /\ CONTEXT' = CONTEXT
              /\ is_some(CONTEXT')
              /\ ~rw_writer'
              /\ pc' = "ev"
\* C14: close_requested is invoked exactly in the cycles that carry a close
\* request, and invoking it changes nothing and shuts nothing down
C14_CloseOnlyAsks == []C14_Invoked /\ [][C14_CloseStep]_vars

\* a cycle ended in which the callback confirmed the close, and the Context
\* is still there with what the cycle's other events wrote
C14_Witness ==
    /\ Ingested
    /\ events.close # <<>>
    /\ \E n \in 1..Len(calls) : calls[n].fn = "close_requested" /\ calls[n].ret
    /\ is_some(CONTEXT)
    /\ CONTEXT # frame_start

(***************************************************************************)
(* C15: how long an edge flag stays readable.                              *)
(***************************************************************************)
\* the getter of the edge flag a transition sets
KeyFlag(c, k, state) ==
    IF state = "Pressed" THEN is_key_pressed(c, k) ELSE is_key_released(c, k)
ButtonFlag(c, b, state) ==
    IF state = "Pressed" THEN is_mouse_button_pressed(c, b)
    ELSE is_mouse_button_released(c, b)
\* event n is the last of the frame for its key, for its button
LastForKey(n) ==
    \A m \in (n + 1)..Len(events.keyboard) :
        events.keyboard[m].key_code # events.keyboard[n].key_code
LastForButton(n) ==
    \A m \in (n + 1)..Len(events.mouse_buttons) :
        events.mouse_buttons[m].button # events.mouse_buttons[n].button

\* C15: as claimed, the flag that any event of the cycle set for its key or
\* button is readable as true when the cycle ends, also when the cycle
\* carries several events for the same key or button.
C15_EveryEventReadable ==
    Ingested =>
        /\ \A n \in 1..Len(events.keyboard) :
              LET e == events.keyboard[n]
              IN  e.key_code # None => KeyFlag(Ctx, KeyOf(e), e.state)
        /\ \A n \in 1..Len(events.mouse_buttons) :
              LET e == events.mouse_buttons[n]
              IN  ButtonFlag(Ctx, e.button, e.state)

\* C15, amended: the flag that the cycle's last event for a key or button
\* set is readable as true when the cycle ends, and the flag of an earlier
\* event for the same key or button is then false unless the last event set
\* the same flag ...
C15_LastAtEnd ==
    Ingested =>
        /\ \A n \in 1..Len(events.keyboard) :
              LET e == events.keyboard[n]
              IN  (e.key_code # None /\ LastForKey(n)) =>
                      /\ KeyFlag(Ctx, KeyOf(e), e.state)
                      /\ is_key_pressed(Ctx, KeyOf(e)) = (e.state = "Pressed")
                      /\ is_key_released(Ctx, KeyOf(e)) = (e.state = "Released")
        /\ \A n \in 1..Len(events.mouse_buttons) :
              LET e == events.mouse_buttons[n]
              IN  LastForButton(n) =>
                      /\ ButtonFlag(Ctx, e.button, e.state)
                      /\ is_mouse_button_pressed(Ctx, e.button) = (e.state = "Pressed")
                      /\ is_mouse_button_released(Ctx, e.button) = (e.state = "Released")
\* ... and an edge flag stays as it is, through the end of the cycle and the
\* cycles after it, in every step but those of an event for that same key
\* or button
C15_UntilNextEvent ==
    (is_some(CONTEXT) /\ is_some(CONTEXT')) =>
        /\ \A k \in KeyCode :
              (\/ is_key_pressed(Ctx, k) # is_key_pressed(unwrap(CONTEXT'), k)
               \/ is_key_released(Ctx, k) # is_key_released(unwrap(CONTEXT'), k))
              => /\ cat = Cat("keyboard")
                 /\ pc \in {"ev", "write"}
                 /\ input.key_code = Some(k)
        /\ \A b \in MouseButton :
              (\/ is_mouse_button_pressed(Ctx, b)
                     # is_mouse_button_pressed(unwrap(CONTEXT'), b)
               \/ is_mouse_button_released(Ctx, b)
                     # is_mouse_button_released(unwrap(CONTEXT'), b))
              => /\ cat = Cat("mouse_buttons")
                 /\ pc \in {"ev", "write"}
                 /\ input.button = b
\* C15, amended: the flag set by the cycle's last event for a key or button
\* reads true at the cycle's end and until a later event for that same key
\* or button resets it; an earlier event's flag is cleared by the next event
\* for that key or button
C15_LastEventReadable == []C15_LastAtEnd /\ [][C15_UntilNextEvent]_vars

\* a cycle of Pressed then Released for one key has ended: released reads
\* true, pressed false, and another key's flag of an earlier cycle still
\* reads true
C15_Witness ==
    /\ Ingested
    /\ Len(events.keyboard) = 2
    /\ events.keyboard[1].key_code = Some("A")
    /\ events.keyboard[1].state = "Pressed"
    /\ events.keyboard[2].key_code = Some("A")
    /\ events.keyboard[2].state = "Released"
    /\ is_key_released(Ctx, "A")
    /\ ~is_key_pressed(Ctx, "A")
    /\ is_key_pressed(Ctx, "B")

(***************************************************************************)
(* C16: mouse buttons are handled as keys are.                             *)
(***************************************************************************)
\* the frame's mouse-button events for button b
ButtonEventsOf(b) == SelectSeq(events.mouse_buttons, LAMBDA e : e.button = b)
\* keyboard events for key with the transitions of the mouse-button events es
AsKeyEvents(es, key) ==
    [n \in 1..Len(es) |->
        [scan_code |-> ScanCodeOf(Some(key)), key_code |-> Some(key),
         state |-> es[n].state]]
\* c with, as its only key entry, the entry c has for button b under key
Transplant(c, b, key) ==
    [c EXCEPT !.keys = IF b \in DOMAIN c.mouse_buttons
                       THEN (key :> c.mouse_buttons[b])
                       ELSE HashMap_new]

\* C16: at the end of a cycle the ButtonState of every mouse button is the
\* ButtonState the keyboard closures give a key that starts from the
\* button's former state (or from no entry) and gets the same sequence of
\* Pressed/Released transitions; and the mouse_button callback was invoked
\* once per mouse-button event, in order, with (button, transition) and no
\* repeat value.
C16_Symmetric ==
    Ingested =>
        /\ \A b \in MouseButton, k \in KeyCode :
              get(Ctx.mouse_buttons, b) =
                 get(FoldKeys(Transplant(unwrap(frame_start), b, k),
                              AsKeyEvents(ButtonEventsOf(b), k)).keys, k)
        /\ Len(Calls("mouse_button")) = Len(events.mouse_buttons)
        /\ \A n \in 1..Len(Calls("mouse_button")) :
              Calls("mouse_button")[n].args =
                 <<events.mouse_buttons[n].button, events.mouse_buttons[n].state>>

\* a cycle of Released then Pressed for a button that was down has ended
C16_Witness ==
    /\ Ingested
    /\ is_mouse_button_down(unwrap(frame_start), "Left")
    /\ Len(events.mouse_buttons) = 2
    /\ events.mouse_buttons[1].state = "Released"
    /\ events.mouse_buttons[2].state = "Pressed"
    /\ is_mouse_button_pressed(Ctx, "Left")
    /\ Len(Calls("mouse_button")) = 2

(***************************************************************************)
(* C17: the hooks run after the write, outside the lock.                   *)
(***************************************************************************)
\* the step invokes the hook named fn
Hook(fn) ==
    /\ Len(calls') = Len(calls) + 1
    /\ calls'[Len(calls')].fn = fn
\* update_keys is about to invoke a hook: the Context already holds what the
\* event at hand reports, and the frame thread holds no guard
C17_Reflected ==
    /\ pc = "cb" => ~rw_writer /\ is_some(CONTEXT)
    /\ At("cb", "keyboard") =>
          /\ is_key_down(Ctx, KeyOf(input)) = (input.state = "Pressed")
          /\ is_key_pressed(Ctx, KeyOf(input)) = (input.state = "Pressed")
          /\ is_key_released(Ctx, KeyOf(input)) = (input.state = "Released")
    /\ At("cb", "mouse_buttons") =>
          /\ is_mouse_button_down(Ctx, input.button) = (input.state = "Pressed")
          /\ is_mouse_button_pressed(Ctx, input.button) = (input.state = "Pressed")
          /\ is_mouse_button_released(Ctx, input.button) = (input.state = "Released")
    /\ At("cb", "cursor_motion") => mouse_position(Ctx) = input.position
    /\ At("cb", "resize") => window_size(Ctx) = vec2(input.width, input.height)
\* the getters a hook calls about its event answer with the post-event state
C17_HookSees ==
    /\ Hook("keyboard") =>
          /\ pc = "cb" /\ pc' = "ev"
          /\ saw' = Some([f \in KeyGetters |->
                            IF f = "is_key_released" THEN input.state = "Released"
                            ELSE input.state = "Pressed"])
    /\ Hook("mouse_button") =>
          /\ pc = "cb" /\ pc' = "ev"
          /\ saw' = Some([f \in ButtonGetters |->
                            IF f = "is_mouse_button_released" THEN input.state = "Released"
                            ELSE input.state = "Pressed"])
    /\ Hook("mouse_absolute") =>
          /\ pc = "cb" /\ pc' = "ev"
          /\ saw' = Some([f \in {"mouse_position"} |-> input.position])
    /\ Hook("window_resized") =>
          /\ pc = "cb" /\ pc' = "ev"
          /\ saw' = Some([f \in {"window_size"} |-> vec2(input.width, input.height)])
\* update_keys, once it runs, gets to its end
C17_Terminates == (pc \in {"ev", "write", "cb"}) ~> Ingested
\* C17: every hook (keyboard, mouse_button, mouse_absolute, window_resized)
\* is invoked when the Context already reflects its event and the frame
\* thread holds no guard; the getters it calls answer with the post-event
\* state and return; and every ingestion cycle terminates.
C17_HooksAfterWrite == []C17_Reflected /\ [][C17_HookSees]_vars /\ C17_Terminates

\* the keyboard hook has returned from a Released event for a key that was
\* down: its getters saw the key released and up
C17_Witness ==
    /\ pc = "ev"
    /\ calls # <<>>
    /\ calls[Len(calls)].fn = "keyboard"
    /\ calls[Len(calls)].args[3] = "Released"
    /\ is_key_down(unwrap(frame_start), calls[Len(calls)].args[1])
    /\ saw # None
    /\ "is_key_released" \in DOMAIN unwrap(saw)
    /\ unwrap(saw)["is_key_released"]
    /\ ~unwrap(saw)["is_key_down"]

(***************************************************************************)
(* C18: the ButtonStates a reader can see.                                 *)
(***************************************************************************)
\* pressed implies down, released implies not down, never both edge flags
WellFormed(bs) ==
    /\ bs.pressed => bs.down
    /\ bs.released => ~bs.down
    /\ ~(bs.pressed /\ bs.released)
\* C18: whenever the Context is present and no write guard is held (the
\* states in which a read guard can be had), every ButtonState of keys and
\* of mouse_buttons has pressed => down, released => ~down, and not both
\* pressed and released.
C18_ButtonStateInvariant ==
    (is_some(CONTEXT) /\ can_read) =>
        /\ \A k \in DOMAIN Ctx.keys : WellFormed(Ctx.keys[k])
        /\ \A b \in DOMAIN Ctx.mouse_buttons : WellFormed(Ctx.mouse_buttons[b])

\* no guard is held; a key that was down has been released and a button is
\* newly pressed
C18_Witness ==
    /\ is_some(CONTEXT)
    /\ can_read
    /\ is_some(frame_start)
    /\ is_key_down(unwrap(frame_start), "A")
    /\ is_key_released(Ctx, "A")
    /\ ~is_key_down(Ctx, "A")
    /\ is_mouse_button_pressed(Ctx, "Left")
    /\ is_mouse_button_down(Ctx, "Left")

(***************************************************************************)
(* C19: what each event may change.                                        *)
(***************************************************************************)
\* the step leaves every key's entry but k's, every button's but b's, as
\* they were (None for "but none's")
SameKeysBut(k) ==
    \A k2 \in KeyCode :
        Some(k2) # k => get(unwrap(CONTEXT').keys, k2) = get(Ctx.keys, k2)
SameButtonsBut(b) ==
    \A b2 \in MouseButton :
        Some(b2) # b =>
            get(unwrap(CONTEXT').mouse_buttons, b2) = get(Ctx.mouse_buttons, b2)
SameVectors(fields) ==
    \A f \in fields : unwrap(CONTEXT')[f] = Ctx[f]
\* update_keys is at an event of category name, before or inside its closure
Handling(name) == cat = Cat(name) /\ pc \in {"ev", "write"}
\* C19: a step of update_keys on a keyboard event for key k changes nothing
\* of the Context but keys[k]; on a mouse-button event for b nothing but
\* mouse_buttons[b]; on a cursor-position event nothing but mouse_position;
\* on a resize event nothing but window_size; on a mouse-motion event
\* nothing; and no other step of a frame (a hook, the close request, the
\* schedule) changes the Context.
C19_Step ==
    InFrame =>
        /\ is_some(CONTEXT')
        /\ IF Handling("keyboard")
           THEN /\ SameKeysBut(input.key_code)
                /\ SameButtonsBut(None)
                /\ SameVectors({"window_size", "mouse_position"})
                /\ input.key_code = None => CONTEXT' = CONTEXT
           ELSE IF Handling("mouse_buttons")
           THEN /\ SameKeysBut(None)
                /\ SameButtonsBut(Some(input.button))
                /\ SameVectors({"window_size", "mouse_position"})
           ELSE IF Handling("cursor_motion")
           THEN /\ SameKeysBut(None)
                /\ SameButtonsBut(None)
                /\ SameVectors({"window_size"})
           ELSE IF Handling("resize")
           THEN /\ SameKeysBut(None)
                /\ SameButtonsBut(None)
                /\ SameVectors({"mouse_position"})
           ELSE CONTEXT' = CONTEXT
\* C19: every step of every frame changes only the part of the Context
\* that belongs to the event at hand, and a mouse-motion event none
C19_OwnPartOnly == [][C19_Step]_vars

\* update_keys has applied a resize event, and a mouse-motion event earlier
\* in the frame, to a Context with a pressed key and a moved cursor, which
\* are as they were at the start of the frame
C19_Witness ==
    /\ At("cb", "resize")
    /\ Len(events.mouse_motion) = 1
    /\ window_size(Ctx) # window_size(unwrap(frame_start))
    /\ is_key_pressed(Ctx, "A")
    /\ mouse_position(Ctx) # Vec2_ZERO
    /\ Ctx.keys = unwrap(frame_start).keys
    /\ mouse_position(Ctx) = mouse_position(unwrap(frame_start))

=============================================================================
